---- MODULE Spec2Model ----
(***************************************************************************)
(* Model of main() of app.py: market discovery, race-card enrichment, the  *)
(* adaptive (HIGH / MEDIUM / LOW) market-book fetch loop, the price map    *)
(* with its overrounds, and the display loop that emits one block per      *)
(* market.                                                                 *)
(*                                                                         *)
(* Encoding.  An optional value (Python None or a value) is a sequence of  *)
(* length 0 or 1.  Prices are integers in hundredths (2.5 is 250), runner  *)
(* volumes are in pence, market volumes in pounds.  An overround is kept   *)
(* in hundredths of a percent, so (1 / price) * 100 is 1000000 \div price; *)
(* every non-zero price of the model divides 1000000 exactly.              *)
(***************************************************************************)
EXTENDS Integers, Sequences, FiniteSets, TLC

\* Longest list of descriptors that discovery returns.
MaxMarkets == 2

\* Race cards are requested for 5 market ids at a time.
ChunkSize == 5

\* The displayed price ladder keeps the first 3 levels.
DepthLimit == 3

\* 1 / price * 100, in hundredths of a percent, is OverroundUnit \div price.
OverroundUnit == 100 * 100 * 100

None == << >>
Some(v) == << v >>

MarketIds == {"m1", "m2"}

(***************************************************************************)
(* The upstream exchange: what the three endpoints can answer.             *)
(***************************************************************************)

\* Runner list of the catalogue entry of a market.
DescRunners(m) == IF m = "m1" THEN << "R1", "R2" >> ELSE << "R2", "R1" >>

MarketCatalogue(m, rs) == [market_id |-> m, runners |-> rs]

Descriptors == { MarketCatalogue(m, DescRunners(m)) : m \in MarketIds }

RECURSIVE SeqsUpTo(_, _)
SeqsUpTo(S, n) ==
    IF n = 0 THEN { << >> }
    ELSE LET shorter == SeqsUpTo(S, n - 1)
         IN  shorter \cup { Append(s, x) : s \in { t \in shorter : Len(t) = n - 1 }, x \in S }

\* list_market_catalogue: any list of descriptors, the same market id possibly
\* more than once.
DiscoveryResults == SeqsUpTo(Descriptors, MaxMarkets)

RunnerBook(sid, tm, back, lay) ==
    [selection_id |-> sid, total_matched |-> tm, back |-> back, lay |-> lay]

\* Price ladders (available_to_back / available_to_lay), best level first.
BackLadders == { << >>, << 0 >>, << 200 >>, << 500, 400, 250, 200 >> }
LayLadders == { << >>, << 200 >>, << 250 >> }

\* Runner lists of the books of a market.  m1: one runner, every pair of
\* ladders.  m2: several runners, in an order and with selection ids that
\* differ from the catalogue's.
BookRunners(m) ==
    IF m = "m1"
    THEN { << RunnerBook("R1", Some(250), b, l) >> : b \in BackLadders, l \in LayLadders }
         \cup { << RunnerBook("R1", None, << 200 >>, << 250 >>) >> }
    ELSE { << RunnerBook("R1", Some(250), << 250, 200 >>, << 200 >>),
              RunnerBook("R3", None, << 400 >>, << 500 >>) >>,
           << RunnerBook("R2", Some(0), << 200 >>, << 250 >>),
              RunnerBook("R1", None, << 400 >>, << >>) >>,
           << RunnerBook("R1", Some(99), << >>, << 0 >>),
              RunnerBook("R2", Some(1000), << 500 >>, << 400 >>) >>,
           << RunnerBook("R3", None, << 400 >>, << >>),
              RunnerBook("R1", None, << 250 >>, << 200 >>) >> }

MarketBook(m, tm, rs) == [market_id |-> m, total_matched |-> tm, runners |-> rs]

\* The books of a market: with runners, or without any runner and with or
\* without a market volume.
AllBooks(m) ==
    { MarketBook(m, Some(1000), rs) : rs \in BookRunners(m) }
    \cup { MarketBook(m, tm, << >>) : tm \in { None, Some(0) } }

\* The price projections: filter_high asks for best offers and traded volume,
\* filter_med for the same at depth 1, filter_low for best offers at depth 1
\* and no traded volume.
Projected(tier, b) ==
    LET Shallow(r) == Len(r.back) <= 1 /\ Len(r.lay) <= 1
        NoVolume(r) == r.total_matched = None
        rs == b.runners
    IN  CASE tier = "HIGH" -> TRUE
          [] tier = "MEDIUM" -> \A n \in 1..Len(rs) : Shallow(rs[n])
          [] tier = "LOW" -> \A n \in 1..Len(rs) : Shallow(rs[n]) /\ NoVolume(rs[n])

Books(m, tier) == { b \in AllBooks(m) : Projected(tier, b) }

\* What one list_market_book call does: return a list holding the market's
\* book, return an empty list, raise APIError, or raise another exception.
BookOutcomes(m, tier) ==
    { [kind |-> "book", book |-> Some(b)] : b \in Books(m, tier) }
    \cup { [kind |-> k, book |-> None] : k \in {"empty", "APIError", "Exception"} }

RaceCard(m) == [race_id_exchange |-> m, course |-> "Ascot"]

RECURSIVE SubSeqsOf(_)
\* The sub-lists of a list, order kept.
SubSeqsOf(s) ==
    IF s = << >> THEN { << >> }
    ELSE LET rest == SubSeqsOf(Tail(s))
         IN  rest \cup { << Head(s) >> \o r : r \in rest }

RECURSIVE MapRaceCard(_)
MapRaceCard(ids) ==
    IF ids = << >> THEN << >> ELSE << RaceCard(Head(ids)) >> \o MapRaceCard(Tail(ids))

\* What one get_race_card call does: raise, or return cards for some of the
\* requested ids.
CardOutcomes(chunk) ==
    { [kind |-> "cards", batch |-> MapRaceCard(ids)] : ids \in SubSeqsOf(chunk) }
    \cup { [kind |-> "Exception", batch |-> << >>] }

(***************************************************************************)
(* State.                                                                  *)
(***************************************************************************)
VARIABLES
    pc,                \* position in main()
    error,             \* the exception that ended the run, "" if none
    market_catalogues, \* what discovery returned
    catalogue_map,     \* market id -> catalogue entry
    market_ids,        \* keys of catalogue_map, insertion order
    race_cards,        \* cards collected from every chunk
    card_requests,     \* the get_race_card calls made, in order
    ci,                \* start index of the next chunk (0-based, as range())
    market_books,      \* books collected by the fetch loop
    book_requests,     \* the list_market_book calls made, in order
    fi,                \* index into market_ids of the fetch loop (1-based)
    success,           \* the fetch loop's success flag
    price_map,         \* market id -> totals, overrounds, runners
    pj,                \* index into market_books of the price-map loop
    card_map,          \* market id -> race card
    di,                \* index into market_ids of the display loop
    snapshots          \* the market blocks printed so far

vars == << pc, error, market_catalogues, catalogue_map, market_ids, race_cards,
           card_requests, ci, market_books, book_requests, fi, success,
           price_map, pj, card_map, di, snapshots >>

EmptyMap == [k \in {} |-> None]

\* d[k] = v on a dict: insert or overwrite.
DictSet(d, k, v) == [x \in (DOMAIN d) \cup {k} |-> IF x = k THEN v ELSE d[x]]

Init ==
    /\ pc = "discover"
    /\ error = ""
    /\ market_catalogues = << >>
    /\ catalogue_map = EmptyMap
    /\ market_ids = << >>
    /\ race_cards = << >>
    /\ card_requests = << >>
    /\ ci = 0
    /\ market_books = << >>
    /\ book_requests = << >>
    /\ fi = 1
    /\ success = FALSE
    /\ price_map = EmptyMap
    /\ pj = 1
    /\ card_map = EmptyMap
    /\ di = 1
    /\ snapshots = << >>

(***************************************************************************)
(* 5. Find markets.                                                        *)
(***************************************************************************)
RECURSIVE CatalogueMap(_)
\* {m.market_id: m for m in market_catalogues}: a later entry overwrites.
CatalogueMap(cats) ==
    IF cats = << >> THEN EmptyMap
    ELSE LET last == cats[Len(cats)]
         IN  DictSet(CatalogueMap(SubSeq(cats, 1, Len(cats) - 1)), last.market_id, last)

RECURSIVE DictKeys_NoDedup(_)
\* [m.market_id for m in market_catalogues]: a repeated id is kept.
DictKeys_NoDedup(cats) ==
    IF cats = << >> THEN << >>
    ELSE Append(DictKeys_NoDedup(SubSeq(cats, 1, Len(cats) - 1)), cats[Len(cats)].market_id)

RECURSIVE DictKeys(_)
\* list(catalogue_map.keys()): each key once, at its first insertion.
DictKeys(cats) ==
    IF cats = << >> THEN << >>
    ELSE LET before == DictKeys(SubSeq(cats, 1, Len(cats) - 1))
             k == cats[Len(cats)].market_id
         IN  IF \E n \in 1..Len(before) : before[n] = k THEN before ELSE Append(before, k)

\* list_market_catalogue raises: nothing in main() catches it.
DiscoverFails ==
    /\ pc = "discover"
    /\ pc' = "aborted"
    /\ error' = "DiscoveryError"
    /\ UNCHANGED << market_catalogues, catalogue_map, market_ids, race_cards,
                    card_requests, ci, market_books, book_requests, fi, success,
                    price_map, pj, card_map, di, snapshots >>

\* Discovery without the "if not market_catalogues: return" test.
Discover_NoEmptyTest ==
    /\ pc = "discover"
    /\ \E cats \in DiscoveryResults :
          /\ market_catalogues' = cats
          /\ pc' = "race_cards"
          /\ catalogue_map' = CatalogueMap(cats)
          /\ market_ids' = DictKeys(cats)
    /\ UNCHANGED << error, race_cards, card_requests, ci, market_books,
                    book_requests, fi, success, price_map, pj, card_map, di,
                    snapshots >>

\* list_market_catalogue returns; an empty result ends the run.
Discover ==
    /\ pc = "discover"
    /\ \E cats \in DiscoveryResults :
          /\ market_catalogues' = cats
          /\ IF cats = << >>
             THEN /\ pc' = "no_races"
                  /\ UNCHANGED << catalogue_map, market_ids >>
             ELSE /\ pc' = "race_cards"
                  /\ catalogue_map' = CatalogueMap(cats)
                  /\ market_ids' = DictKeys(cats)
    /\ UNCHANGED << error, race_cards, card_requests, ci, market_books,
                    book_requests, fi, success, price_map, pj, card_map, di,
                    snapshots >>

(***************************************************************************)
(* 6A. Race cards, in chunks.                                              *)
(***************************************************************************)
Min(a, b) == IF a < b THEN a ELSE b

\* market_ids[i:i+1]: only the first id of each chunk.
Chunk_FirstOnly(ids, i) == SubSeq(ids, i + 1, Min(i + 1, Len(ids)))

\* market_ids[i:i+5]
Chunk(ids, i) == SubSeq(ids, i + 1, Min(i + ChunkSize, Len(ids)))

\* One iteration of the chunk loop; the iteration after the last chunk starts
\* the book fetch loop.
FetchRaceCards ==
    /\ pc = "race_cards"
    /\ ci < Len(market_ids)
    /\ \E o \in CardOutcomes(Chunk(market_ids, ci)) :
          /\ card_requests' = Append(card_requests,
                                     [market_ids |-> Chunk(market_ids, ci), kind |-> o.kind])
          /\ race_cards' = IF o.kind = "cards" THEN race_cards \o o.batch ELSE race_cards
    /\ ci' = ci + ChunkSize
    /\ pc' = IF ci + ChunkSize < Len(market_ids) THEN "race_cards" ELSE "attempt1"
    /\ UNCHANGED << error, market_catalogues, catalogue_map, market_ids,
                    market_books, book_requests, fi, success, price_map, pj,
                    card_map, di, snapshots >>

(***************************************************************************)
(* 6B. Market books, adaptive detail level.                                *)
(***************************************************************************)
BookRequest(m, tier, o) == [market_id |-> m, tier |-> tier, kind |-> o.kind, book |-> o.book]

Raises(o) == o.kind \in {"APIError", "Exception"}

\* except APIError: pass
CaughtHigh(o) == o.kind = "APIError"

\* except APIError: pass
CaughtMedium(o) == o.kind = "APIError"

\* except Exception: pass
CaughtLow(o) == o.kind \in {"APIError", "Exception"}

\* if book: market_books.extend(book)
Extended(books, o) == IF o.book # << >> THEN books \o o.book ELSE books

\* Attempt 2 made whatever the flag says.
TriesMedium_Always(s) == TRUE

\* Attempt 2 is made under "if not success".
TriesMedium(s) == ~s

\* Attempt 3 made whatever the flag says.
TriesLow_Always(s) == TRUE

\* Attempt 3 is made under "if not success".
TriesLow(s) == ~s

\* Attempt 1: success = False, then the HIGH request.
Attempt1 ==
    /\ pc = "attempt1"
    /\ \E o \in BookOutcomes(market_ids[fi], "HIGH") :
          /\ book_requests' = Append(book_requests, BookRequest(market_ids[fi], "HIGH", o))
          /\ IF Raises(o)
             THEN /\ success' = FALSE
                  /\ UNCHANGED market_books
                  /\ IF CaughtHigh(o)
                     THEN pc' = "attempt2" /\ UNCHANGED error
                     ELSE pc' = "aborted" /\ error' = "BookFetchException"
             ELSE /\ market_books' = Extended(market_books, o)
                  /\ success' = (o.book # << >>)
                  /\ pc' = "attempt2"
                  /\ UNCHANGED error
    /\ UNCHANGED << market_catalogues, catalogue_map, market_ids, race_cards,
                    card_requests, ci, fi, price_map, pj, card_map, di, snapshots >>

\* Attempt 2: the MEDIUM request, unless attempt 1 succeeded.
Attempt2 ==
    /\ pc = "attempt2"
    /\ IF TriesMedium(success)
       THEN \E o \in BookOutcomes(market_ids[fi], "MEDIUM") :
               /\ book_requests' = Append(book_requests, BookRequest(market_ids[fi], "MEDIUM", o))
               /\ IF Raises(o)
                  THEN /\ UNCHANGED << market_books, success >>
                       /\ IF CaughtMedium(o)
                          THEN pc' = "attempt3" /\ UNCHANGED error
                          ELSE pc' = "aborted" /\ error' = "BookFetchException"
                  ELSE /\ market_books' = Extended(market_books, o)
                       /\ success' = (success \/ o.book # << >>)
                       /\ pc' = "attempt3"
                       /\ UNCHANGED error
       ELSE /\ pc' = "attempt3"
            /\ UNCHANGED << book_requests, market_books, success, error >>
    /\ UNCHANGED << market_catalogues, catalogue_map, market_ids, race_cards,
                    card_requests, ci, fi, price_map, pj, card_map, di, snapshots >>

\* Attempt 3: the LOW request, unless an earlier attempt succeeded; then the
\* pause and the next market.
Attempt3 ==
    /\ pc = "attempt3"
    /\ IF TriesLow(success)
       THEN \E o \in BookOutcomes(market_ids[fi], "LOW") :
               /\ book_requests' = Append(book_requests, BookRequest(market_ids[fi], "LOW", o))
               /\ IF Raises(o)
                  THEN /\ UNCHANGED << market_books, success >>
                       /\ IF CaughtLow(o)
                          THEN /\ pc' = IF fi < Len(market_ids) THEN "attempt1" ELSE "price_map"
                               /\ fi' = fi + 1
                               /\ UNCHANGED error
                          ELSE /\ pc' = "aborted"
                               /\ error' = "BookFetchException"
                               /\ UNCHANGED fi
                  ELSE /\ market_books' = Extended(market_books, o)
                       /\ success' = (success \/ o.book # << >>)
                       /\ pc' = IF fi < Len(market_ids) THEN "attempt1" ELSE "price_map"
                       /\ fi' = fi + 1
                       /\ UNCHANGED error
       ELSE /\ pc' = IF fi < Len(market_ids) THEN "attempt1" ELSE "price_map"
            /\ fi' = fi + 1
            /\ UNCHANGED << book_requests, market_books, success, error >>
    /\ UNCHANGED << market_catalogues, catalogue_map, market_ids, race_cards,
                    card_requests, ci, price_map, pj, card_map, di, snapshots >>

(***************************************************************************)
(* 7. Process: the price map and the card map.                             *)
(***************************************************************************)
\* "if runner.ex.available_to_back" / "if runner.ex.available_to_lay"
HasPrice(ladder) == ladder # << >>

\* (1 / price) * 100
Implied(price) == OverroundUnit \div price

\* The divisions of the overround loop: one per non-empty ladder.
DividesByZero(book) ==
    \E n \in 1..Len(book.runners) :
        \/ HasPrice(book.runners[n].back) /\ book.runners[n].back[1] = 0
        \/ HasPrice(book.runners[n].lay) /\ book.runners[n].lay[1] = 0

RECURSIVE back_overround(_)
\* back_overround += (1 / available_to_back[0].price) * 100, runner by runner
back_overround(runners) ==
    IF runners = << >> THEN 0
    ELSE LET runner == runners[Len(runners)]
             sofar == back_overround(SubSeq(runners, 1, Len(runners) - 1))
         IN  IF HasPrice(runner.back) THEN sofar + Implied(runner.back[1]) ELSE sofar

RECURSIVE lay_overround(_)
\* lay_overround += (1 / available_to_lay[0].price) * 100, runner by runner
lay_overround(runners) ==
    IF runners = << >> THEN 0
    ELSE LET runner == runners[Len(runners)]
             sofar == lay_overround(SubSeq(runners, 1, Len(runners) - 1))
         IN  IF HasPrice(runner.lay) THEN sofar + Implied(runner.lay[1]) ELSE sofar

\* available_to_back[0].price if available_to_back else 0.0
BestPrice(ladder) == IF HasPrice(ladder) THEN ladder[1] ELSE 0

\* [f"{p.price}" for p in ladder][:3]
Depth(ladder) == SubSeq(ladder, 1, Min(DepthLimit, Len(ladder)))

\* The entry of price_map[m_id]['runners'] made for one runner of the book.
RunnerEntry(runner) ==
    [total_matched |-> runner.total_matched,
     back |-> Depth(runner.back),
     lay |-> Depth(runner.lay),
     best_back |-> BestPrice(runner.back),
     best_lay |-> BestPrice(runner.lay)]

RECURSIVE RunnersMap(_)
\* price_map[m_id]['runners'][s_id] = {...}, runner by runner
RunnersMap(runners) ==
    IF runners = << >> THEN EmptyMap
    ELSE LET runner == runners[Len(runners)]
         IN  DictSet(RunnersMap(SubSeq(runners, 1, Len(runners) - 1)),
                     runner.selection_id, RunnerEntry(runner))

PriceEntry(book) ==
    [market_total |-> book.total_matched,
     back_overround |-> back_overround(book.runners),
     lay_overround |-> lay_overround(book.runners),
     runners |-> RunnersMap(book.runners)]

\* One iteration of "for book in market_books".  A best price of 0 makes the
\* overround loop divide by zero, which nothing catches.
MapPrices ==
    /\ pc = "price_map"
    /\ pj <= Len(market_books)
    /\ LET book == market_books[pj]
       IN  IF DividesByZero(book)
           THEN /\ pc' = "aborted"
                /\ error' = "ZeroDivisionError"
                /\ UNCHANGED << price_map, pj >>
           ELSE /\ price_map' = DictSet(price_map, book.market_id, PriceEntry(book))
                /\ pj' = pj + 1
                /\ UNCHANGED << pc, error >>
    /\ UNCHANGED << market_catalogues, catalogue_map, market_ids, race_cards,
                    card_requests, ci, market_books, book_requests, fi, success,
                    card_map, di, snapshots >>

RECURSIVE CardMap(_)
\* {card.race.race_id_exchange: card for card in race_cards}
CardMap(cards) ==
    IF cards = << >> THEN EmptyMap
    ELSE LET card == cards[Len(cards)]
         IN  DictSet(CardMap(SubSeq(cards, 1, Len(cards) - 1)), card.race_id_exchange, card)

\* After the last book: build the card map and start the display loop.
MapCards ==
    /\ pc = "price_map"
    /\ pj > Len(market_books)
    /\ card_map' = CardMap(race_cards)
    /\ pc' = "display"
    /\ UNCHANGED << error, market_catalogues, catalogue_map, market_ids,
                    race_cards, card_requests, ci, market_books, book_requests,
                    fi, success, price_map, pj, di, snapshots >>

(***************************************************************************)
(* The display loop, with the catalogue as base.                           *)
(***************************************************************************)
\* The comparison alone, without the two presence tests.
Arbitrage_NoPresenceTest(bb, bl) == bb > bl

\* if bb > 0 and bl > 0 and bb > bl
Arbitrage(bb, bl) == bb > 0 /\ bl > 0 /\ bb > bl

\* f"£{int(val)}" of a volume in pence
Pounds(val) == val \div 100

\* The line printed for a catalogue runner that has no entry in the price map.
BlankLine(s_id) ==
    [selection_id |-> s_id, matched |-> 0, back_str |-> None, lay_str |-> None,
     arb_flag |-> None]

\* The line printed for a catalogue runner from its entry in the price map.
DataLine(s_id, data) ==
    [selection_id |-> s_id,
     matched |-> Pounds(IF data.total_matched # None /\ data.total_matched[1] # 0
                        THEN data.total_matched[1] ELSE 0),
     back_str |-> data.back,
     lay_str |-> data.lay,
     arb_flag |-> IF Arbitrage(data.best_back, data.best_lay)
                  THEN Some(data.best_back - data.best_lay) ELSE None]

\* A selection id that never matches a key of the runners map (one side of
\* the join left unconverted): every line is blank.
RunnerLine_NeverJoins(pm, m_id, s_id) == BlankLine(s_id)

\* One iteration of "for runner in cat.runners".
RunnerLine(pm, m_id, s_id) ==
    IF m_id \in DOMAIN pm /\ s_id \in DOMAIN pm[m_id].runners
    THEN DataLine(s_id, pm[m_id].runners[s_id])
    ELSE BlankLine(s_id)

RunnerLines(pm, m_id, runners) ==
    [n \in 1..Len(runners) |-> RunnerLine(pm, m_id, runners[n])]

\* course_name = "Unknown" unless the market has a card
CourseName(cm, m_id) == IF m_id \in DOMAIN cm THEN cm[m_id].course ELSE "Unknown"

\* market_total = 0.0 unless the market is in the price map
MarketTotal(pm, m_id) == IF m_id \in DOMAIN pm THEN pm[m_id].market_total ELSE Some(0)

\* The lay overround read where the back overround is meant.
BackOr_ReadsLay(pm, m_id) == IF m_id \in DOMAIN pm THEN pm[m_id].lay_overround ELSE 0

\* back_or = 0.0 unless the market is in the price map
BackOr(pm, m_id) == IF m_id \in DOMAIN pm THEN pm[m_id].back_overround ELSE 0

\* lay_or = 0.0 unless the market is in the price map
LayOr(pm, m_id) == IF m_id \in DOMAIN pm THEN pm[m_id].lay_overround ELSE 0

\* One iteration of the display loop: the block of one market.  A market
\* total of None cannot be formatted with ",.0f"; nothing catches that.
Display ==
    /\ pc = "display"
    /\ LET m_id == market_ids[di]
           cat == catalogue_map[m_id]
           market_total == MarketTotal(price_map, m_id)
       IN  IF market_total = None
           THEN /\ pc' = "aborted"
                /\ error' = "TypeError"
                /\ UNCHANGED << di, snapshots >>
           ELSE /\ snapshots' = Append(snapshots,
                       [market_id |-> m_id,
                        course_name |-> CourseName(card_map, m_id),
                        market_total |-> market_total[1],
                        back_or |-> BackOr(price_map, m_id),
                        lay_or |-> LayOr(price_map, m_id),
                        runners |-> RunnerLines(price_map, m_id, cat.runners)])
                /\ di' = di + 1
                /\ pc' = IF di < Len(market_ids) THEN "display" ELSE "done"
                /\ UNCHANGED error
    /\ UNCHANGED << market_catalogues, catalogue_map, market_ids, race_cards,
                    card_requests, ci, market_books, book_requests, fi, success,
                    price_map, pj, card_map >>

Next ==
    \/ DiscoverFails
    \/ Discover
    \/ FetchRaceCards
    \/ Attempt1
    \/ Attempt2
    \/ Attempt3
    \/ MapPrices
    \/ MapCards
    \/ Display

Spec == Init /\ [][Next]_vars

\* main() is one sequential thread and every call it makes returns or raises:
\* a step that can be taken is taken.
FairSpec == Spec /\ WF_vars(Next)

(***************************************************************************)
(* Properties.                                                             *)
(***************************************************************************)
RunEnded == pc \in {"done", "aborted", "no_races"}

Requests == DOMAIN book_requests

Failed(r) == r.kind \in {"APIError", "Exception"}

CheaperTier(tier) == IF tier = "HIGH" THEN "MEDIUM" ELSE "LOW"

\* The requests made for market m after request k.
LaterRequests(k) ==
    { j \in Requests : j > k /\ book_requests[j].market_id = book_requests[k].market_id }

SnapshotsOf(m) == { n \in DOMAIN snapshots : snapshots[n].market_id = m }

BooksOf(m) == { n \in DOMAIN market_books : market_books[n].market_id = m }

\* C1: when the run has ended, the emitted snapshots are the descriptors that
\* discovery returned, one each, in discovery order.
C1_OneSnapshotPerDescriptor ==
    RunEnded =>
        /\ Len(snapshots) = Len(market_catalogues)
        /\ \A n \in DOMAIN snapshots :
              snapshots[n].market_id = market_catalogues[n].market_id

\* C2 as stated: tiers are requested in the order HIGH, MEDIUM, LOW, and once
\* a request for a market has returned without raising (with a book or with
\* an empty list) no further request is made for that market.
C2_FirstReturningTierKept ==
    \A k \in Requests :
        /\ book_requests[k].tier # "HIGH" =>
              /\ k > 1
              /\ book_requests[k - 1].market_id = book_requests[k].market_id
              /\ CheaperTier(book_requests[k - 1].tier) = book_requests[k].tier
        /\ ~Failed(book_requests[k]) => LaterRequests(k) = {}

RECURSIVE ReturnedBooks(_)
\* The books returned by a list of requests, in request order.
ReturnedBooks(reqs) ==
    IF reqs = << >> THEN << >> ELSE Head(reqs).book \o ReturnedBooks(Tail(reqs))

\* C2 amended: tiers are requested in the order HIGH, MEDIUM, LOW, each
\* after the richer one; once a request for a market has returned a book no
\* further request is made for that market; and the books kept are exactly
\* the books returned, so a market's book is the one of its first tier that
\* returned a book.
C2_FirstNonEmptyTierKept ==
    /\ \A k \in Requests :
          /\ book_requests[k].tier = "HIGH" =>
                \A j \in 1..(k - 1) : book_requests[j].market_id # book_requests[k].market_id
          /\ book_requests[k].tier # "HIGH" =>
                /\ k > 1
                /\ book_requests[k - 1].market_id = book_requests[k].market_id
                /\ CheaperTier(book_requests[k - 1].tier) = book_requests[k].tier
                /\ book_requests[k - 1].tier # "LOW"
                /\ book_requests[k - 1].kind # "book"
          /\ book_requests[k].kind = "book" => LaterRequests(k) = {}
    /\ market_books = ReturnedBooks(book_requests)

\* HIGH raised APIError, MEDIUM returned a book, the loop has left the market
\* and LOW was never requested for it.
C2_Witness ==
    /\ pc \in {"attempt1", "price_map"}
    /\ \E k \in Requests :
          /\ k + 1 \in Requests
          /\ book_requests[k].tier = "HIGH" /\ book_requests[k].kind = "APIError"
          /\ book_requests[k + 1].tier = "MEDIUM" /\ book_requests[k + 1].kind = "book"
          /\ book_requests[k + 1].market_id = book_requests[k].market_id
          /\ LaterRequests(k + 1) = {}
          /\ \E n \in DOMAIN market_books : << market_books[n] >> = book_requests[k + 1].book

\* Every tier was requested for m and every one of the three requests raised.
AllTiersFailed(m) ==
    \A tier \in {"HIGH", "MEDIUM", "LOW"} :
        \E k \in Requests :
            /\ book_requests[k].market_id = m
            /\ book_requests[k].tier = tier
            /\ Failed(book_requests[k])

\* A snapshot without book data: no volume, overrounds 0, blank runner lines.
Degraded(s) ==
    /\ s.market_total = 0
    /\ s.back_or = 0
    /\ s.lay_or = 0
    /\ \A n \in DOMAIN s.runners : s.runners[n] = BlankLine(s.runners[n].selection_id)

\* C3: when the run has ended, a market whose three tiers all failed has a
\* snapshot, and that snapshot carries no book data.
C3_ExhaustedMarketReported ==
    RunEnded =>
        \A m \in MarketIds :
            AllTiersFailed(m) =>
                /\ SnapshotsOf(m) # {}
                /\ \A n \in SnapshotsOf(m) : Degraded(snapshots[n])

\* C4: a failure raised by a book request never ends the run.
C4_FetchFailureContained == ~(pc = "aborted" /\ error = "BookFetchException")

\* C5: after a book request fails with a failure other than APIError, no
\* further request is made for that market and the run is not aborted by it.
C5_OtherFailureEndsMarketOnly ==
    \A k \in Requests :
        book_requests[k].kind = "Exception" =>
            /\ LaterRequests(k) = {}
            /\ ~(k = Len(book_requests) /\ pc = "aborted" /\ error = "BookFetchException")

\* C6: a failed HIGH or MEDIUM request, whatever the failure, is followed by
\* the request of the next cheaper tier for the same market (or that request
\* is the next thing the loop does); a market that ends a completed fetch
\* loop without a book had all three tiers requested.
C6_AnyFailureFallsBack ==
    /\ \A k \in Requests :
          (Failed(book_requests[k]) /\ book_requests[k].tier # "LOW") =>
              IF k < Len(book_requests)
              THEN /\ book_requests[k + 1].market_id = book_requests[k].market_id
                   /\ book_requests[k + 1].tier = CheaperTier(book_requests[k].tier)
              ELSE pc \in {"attempt2", "attempt3"}
    /\ pc \in {"price_map", "display", "done"} =>
          \A n \in DOMAIN market_ids :
              BooksOf(market_ids[n]) = {} =>
                  \A tier \in {"HIGH", "MEDIUM", "LOW"} :
                      \E k \in Requests : /\ book_requests[k].market_id = market_ids[n]
                                          /\ book_requests[k].tier = tier

\* C7: on every runner line of every snapshot, the arbitrage margin is present
\* exactly when the line shows a back price and a lay price and the best back
\* exceeds the best lay; a margin that is present is their difference, and is
\* not zero.
C7_ArbitrageMargin ==
    \A n \in DOMAIN snapshots :
        \A k \in DOMAIN snapshots[n].runners :
            LET line == snapshots[n].runners[k]
                edge == /\ line.back_str # None
                        /\ line.lay_str # None
                        /\ line.back_str[1] > line.lay_str[1]
            IN  /\ line.arb_flag # None <=> edge
                /\ line.arb_flag # None =>
                      /\ line.arb_flag[1] = line.back_str[1] - line.lay_str[1]
                      /\ line.arb_flag[1] # 0

\* One run shows a line with a margin, a line with both prices and no margin,
\* and a line with a back price and no lay price.
C7_Witness ==
    /\ \E n \in DOMAIN snapshots : \E k \in DOMAIN snapshots[n].runners :
          snapshots[n].runners[k].arb_flag # None
    /\ \E n \in DOMAIN snapshots : \E k \in DOMAIN snapshots[n].runners :
          /\ snapshots[n].runners[k].back_str # None
          /\ snapshots[n].runners[k].lay_str # None
          /\ snapshots[n].runners[k].arb_flag = None
    /\ \E n \in DOMAIN snapshots : \E k \in DOMAIN snapshots[n].runners :
          /\ snapshots[n].runners[k].back_str # None
          /\ snapshots[n].runners[k].lay_str = None

RECURSIVE Sum(_)
Sum(q) == IF q = << >> THEN 0 ELSE Head(q) + Sum(Tail(q))

\* 100 / price of each runner's best price on one side, 0 without a price.
BackTerms(book) ==
    [n \in DOMAIN book.runners |->
        IF book.runners[n].back = << >> \/ book.runners[n].back[1] = 0
        THEN 0 ELSE OverroundUnit \div book.runners[n].back[1]]

LayTerms(book) ==
    [n \in DOMAIN book.runners |->
        IF book.runners[n].lay = << >> \/ book.runners[n].lay[1] = 0
        THEN 0 ELSE OverroundUnit \div book.runners[n].lay[1]]

\* C8: the overrounds of a snapshot are the sums of 100 / best price over the
\* runners of the market's book, and 0 for a market without a book.
C8_Overrounds ==
    \A n \in DOMAIN snapshots :
        LET s == snapshots[n]
        IN  IF BooksOf(s.market_id) = {}
            THEN s.back_or = 0 /\ s.lay_or = 0
            ELSE \A j \in BooksOf(s.market_id) :
                    /\ s.back_or = Sum(BackTerms(market_books[j]))
                    /\ s.lay_or = Sum(LayTerms(market_books[j]))

\* One run shows a market whose book has a runner without a lay price and
\* different overrounds on the two sides, and a market without a book.
C8_Witness ==
    /\ \E n \in DOMAIN snapshots :
          /\ snapshots[n].back_or > 0
          /\ snapshots[n].lay_or > 0
          /\ snapshots[n].back_or # snapshots[n].lay_or
          /\ \E j \in BooksOf(snapshots[n].market_id) :
                \E r \in DOMAIN market_books[j].runners :
                    market_books[j].runners[r].lay = << >>
    /\ \E n \in DOMAIN snapshots : BooksOf(snapshots[n].market_id) = {}

\* C9: a best price of 0 is never divided into: the run does not end with a
\* division by zero.
C9_ZeroPriceNotDivided == ~(pc = "aborted" /\ error = "ZeroDivisionError")

\* The book entries of selection s_id in the book of a snapshot's market.
BookEntries(m, s_id) ==
    { e \in UNION { { market_books[j].runners[r] : r \in DOMAIN market_books[j].runners }
                    : j \in BooksOf(m) } : e.selection_id = s_id }

\* The line shows the entry: its volume in pounds and the first levels of its
\* two ladders.
Shows(line, e) ==
    /\ line.matched = (IF e.total_matched = << >> THEN 0 ELSE e.total_matched[1] \div 100)
    /\ Len(line.back_str) = Min(DepthLimit, Len(e.back))
    /\ \A i \in DOMAIN line.back_str : line.back_str[i] = e.back[i]
    /\ Len(line.lay_str) = Min(DepthLimit, Len(e.lay))
    /\ \A i \in DOMAIN line.lay_str : line.lay_str[i] = e.lay[i]

\* C10: the runner lines of a snapshot are the runners of the market's
\* catalogue entry, in that order; a runner that is in the book shows the
\* book entry's data, a runner that is not in the book shows blank fields.
C10_RunnersFromDescriptor ==
    \A n \in DOMAIN snapshots :
        LET s == snapshots[n]
            cat == catalogue_map[s.market_id]
        IN  /\ Len(s.runners) = Len(cat.runners)
            /\ \A k \in DOMAIN s.runners :
                  /\ s.runners[k].selection_id = cat.runners[k]
                  /\ IF BookEntries(s.market_id, cat.runners[k]) = {}
                     THEN s.runners[k] = BlankLine(cat.runners[k])
                     ELSE \A e \in BookEntries(s.market_id, cat.runners[k]) :
                             Shows(s.runners[k], e)

\* A snapshot whose market has a book with a runner of the catalogue entry
\* (shown with prices), lacks another runner of the entry, and has a runner
\* that the entry does not have.
C10_Witness ==
    \E n \in DOMAIN snapshots :
        LET s == snapshots[n]
            cat == catalogue_map[s.market_id]
            ids == { cat.runners[k] : k \in DOMAIN cat.runners }
        IN  /\ \E k \in DOMAIN s.runners :
                  /\ BookEntries(s.market_id, cat.runners[k]) # {}
                  /\ s.runners[k].back_str # None
            /\ \E k \in DOMAIN s.runners : BookEntries(s.market_id, cat.runners[k]) = {}
            /\ \E j \in BooksOf(s.market_id) :
                  \E r \in DOMAIN market_books[j].runners :
                      market_books[j].runners[r].selection_id \notin ids

\* The market ids for which a race card was collected.
CardIds == { race_cards[n].race_id_exchange : n \in DOMAIN race_cards }

\* A race-card lookup raised, or returned no card for a market it was asked
\* about.
SomeLookupGaveNothing ==
    \E k \in DOMAIN card_requests :
        \/ card_requests[k].kind = "Exception"
        \/ \E n \in DOMAIN card_requests[k].market_ids :
              card_requests[k].market_ids[n] \notin CardIds

\* C11: when the run has ended after a race-card lookup that failed or gave
\* nothing, every market has had its book requested and has its snapshot, and
\* the snapshot of a market without a card names the course "Unknown".
C11_EnrichmentAbsorbed ==
    (RunEnded /\ SomeLookupGaveNothing) =>
        \A n \in DOMAIN market_ids :
            /\ \E k \in Requests : book_requests[k].market_id = market_ids[n]
            /\ SnapshotsOf(market_ids[n]) # {}
            /\ \A j \in SnapshotsOf(market_ids[n]) :
                  market_ids[n] \notin CardIds => snapshots[j].course_name = "Unknown"

\* A book without any price and without any traded volume.
Bare(b) ==
    /\ b.total_matched \in { None, Some(0) }
    /\ \A r \in DOMAIN b.runners :
          /\ b.runners[r].back = << >>
          /\ b.runners[r].lay = << >>
          /\ b.runners[r].total_matched \in { None, Some(0) }

\* C12: the snapshot of a market that was fetched, with a book that has no
\* price and no traded volume, differs from the snapshot the same market gets
\* when every tier failed.
C12_DegradationDistinguishable ==
    \A n \in DOMAIN snapshots :
        \A j \in BooksOf(snapshots[n].market_id) :
            Bare(market_books[j]) => ~Degraded(snapshots[n])

\* C13: once discovery has failed or returned no market, the run has ended
\* and no race card and no book was requested and no snapshot emitted.
C13_NothingWithoutMarkets ==
    (pc # "discover" /\ market_catalogues = << >>) =>
        /\ RunEnded
        /\ card_requests = << >>
        /\ book_requests = << >>
        /\ snapshots = << >>

\* Discovery has failed, or has returned an empty list.
C13_Witness ==
    \/ pc = "aborted" /\ error = "DiscoveryError"
    \/ pc = "no_races" /\ market_catalogues = << >>

\* C14: the book collection holds at most one book per market id; every book
\* in it is the book returned by one request for that market, as returned;
\* the collection has as many books as requests returned one (a failed or
\* empty attempt adds nothing); and the price-map entry of a market is made
\* from that one book.
C14_OneBookPerMarket ==
    /\ \A m \in MarketIds : Cardinality(BooksOf(m)) <= 1
    /\ \A n \in DOMAIN market_books :
          \E k \in Requests :
              /\ book_requests[k].kind = "book"
              /\ book_requests[k].market_id = market_books[n].market_id
              /\ book_requests[k].book = << market_books[n] >>
    /\ Len(market_books) = Cardinality({ k \in Requests : book_requests[k].kind = "book" })
    /\ \A m \in DOMAIN price_map :
          \E j \in BooksOf(m) :
              /\ price_map[m].market_total = market_books[j].total_matched
              /\ price_map[m].back_overround = Sum(BackTerms(market_books[j]))
              /\ DOMAIN price_map[m].runners =
                    { market_books[j].runners[r].selection_id : r \in DOMAIN market_books[j].runners }

\* The fetch loop is over, a market has its book from LOW after HIGH and
\* MEDIUM failed, and the book is in the price map.
C14_Witness ==
    /\ pc = "display"
    /\ \E k \in Requests :
          /\ book_requests[k].tier = "LOW"
          /\ book_requests[k].kind = "book"
          /\ book_requests[k].book[1].runners # << >>
          /\ book_requests[k].market_id \in DOMAIN price_map
          /\ \E j \in Requests :
                /\ book_requests[j].market_id = book_requests[k].market_id
                /\ book_requests[j].tier = "HIGH"
                /\ book_requests[j].kind = "APIError"

\* The market ids of a race-card request.
Asked(k) == { card_requests[k].market_ids[n] : n \in DOMAIN card_requests[k].market_ids }

\* C15: a market whose snapshot lacks the enrichment after a failed race-card
\* lookup was the only market that lookup concerned.
C15_LookupsIndependent ==
    \A k \in DOMAIN card_requests :
        card_requests[k].kind = "Exception" =>
            \A n \in DOMAIN snapshots :
                (snapshots[n].market_id \in Asked(k) /\ snapshots[n].course_name = "Unknown")
                    => Asked(k) = { snapshots[n].market_id }

\* Market m has its final fetch outcome: a book, or a LOW request made.
Settled(m) ==
    \/ BooksOf(m) # {}
    \/ \E k \in Requests : book_requests[k].market_id = m /\ book_requests[k].tier = "LOW"

\* C16: once the price map has an entry or a snapshot is emitted, every
\* market has its final fetch outcome, every market was covered by a race-card
\* lookup, and the fetch phases are over.
C16_AggregationAfterBatch ==
    (snapshots # << >> \/ DOMAIN price_map # {}) =>
        /\ pc \in {"price_map", "display", "done", "aborted"}
        /\ \A n \in DOMAIN market_ids :
              /\ Settled(market_ids[n])
              /\ \E k \in DOMAIN card_requests : market_ids[n] \in Asked(k)

\* A snapshot is emitted in a run with two markets, one of them without a
\* book, after a race-card lookup that failed.
C16_Witness ==
    /\ snapshots # << >>
    /\ Len(market_ids) = 2
    /\ \E n \in DOMAIN market_ids : BooksOf(market_ids[n]) = {}
    /\ \E n \in DOMAIN market_ids : BooksOf(market_ids[n]) # {}
    /\ \E k \in DOMAIN card_requests : card_requests[k].kind = "Exception"

\* C17: no two snapshots of a run have the same market id.
C17_DistinctSnapshotIds ==
    \A a \in DOMAIN snapshots : \A b \in DOMAIN snapshots :
        a # b => snapshots[a].market_id # snapshots[b].market_id

\* Discovery returned the same market id twice and the run has printed its
\* blocks.
C17_Witness ==
    /\ pc = "done"
    /\ snapshots # << >>
    /\ \E a \in DOMAIN market_catalogues : \E b \in DOMAIN market_catalogues :
          a # b /\ market_catalogues[a].market_id = market_catalogues[b].market_id

\* The requests made for market m.
RequestsOf(m) == { k \in Requests : book_requests[k].market_id = m }

\* No book request failed with anything but APIError.
OnlyAPIErrors == \A k \in Requests : book_requests[k].kind # "Exception"

FetchLoopOver == pc \in {"price_map", "display", "done", "aborted", "no_races"}

\* After the fetch loop of a run whose failures were all APIErrors: each
\* market id occurs once in the list the loop went through and has one HIGH
\* request, between 1 and 3 requests, no two of the same tier; the run has
\* made between N and 3N requests.
RequestsBounded ==
    (OnlyAPIErrors /\ FetchLoopOver) =>
        /\ \A a \in DOMAIN market_ids : \A b \in DOMAIN market_ids :
              a # b => market_ids[a] # market_ids[b]
        /\ \A n \in DOMAIN market_ids :
              LET reqs == RequestsOf(market_ids[n])
              IN  /\ Cardinality(reqs) >= 1
                  /\ Cardinality(reqs) <= 3
                  /\ Cardinality({ k \in reqs : book_requests[k].tier = "HIGH" }) = 1
                  /\ \A j \in reqs : \A k \in reqs :
                        j # k => book_requests[j].tier # book_requests[k].tier
        /\ Len(book_requests) >= Len(market_ids)
        /\ Len(book_requests) <= 3 * Len(market_ids)

\* C18: the fetch loop comes to an end, and when all failures were APIErrors
\* it has then visited each market id once, with 1 to 3 requests per market,
\* one per tier, N to 3N in all.
C18_FetchLoopBounded == []RequestsBounded /\ <>FetchLoopOver

\* The loop has ended without any other failure than APIError, one market
\* took three requests and another took one.
C18_Witness ==
    /\ pc = "price_map"
    /\ OnlyAPIErrors
    /\ \E k \in Requests : book_requests[k].kind = "APIError"
    /\ \E n \in DOMAIN market_ids : Cardinality(RequestsOf(market_ids[n])) = 3
    /\ \E n \in DOMAIN market_ids : Cardinality(RequestsOf(market_ids[n])) = 1

\* Request k is the one whose failure ended the run.
Aborting(k) == k = Len(book_requests) /\ pc = "aborted" /\ error = "BookFetchException"

\* C19: a failure of some class at LOW and a failure of the same class at HIGH
\* or MEDIUM are both absorbed or both end the run.
C19_SameAbsorptionAtEveryTier ==
    \A a \in Requests : \A b \in Requests :
        ( /\ Failed(book_requests[a])
          /\ book_requests[a].kind = book_requests[b].kind
          /\ book_requests[a].tier = "LOW"
          /\ book_requests[b].tier # "LOW" )
        => (Aborting(a) <=> Aborting(b))

====
